---------------------------- MODULE Spec2Model ----------------------------
(***************************************************************************)
(* A model of the DSMR P1 telegram decoder of go-dsmrp1 (package dsmrp1,   *)
(* src/dsmrp1-munin/main.go lines 76-461) and of its two consumers.        *)
(*                                                                         *)
(* Text is modelled byte by byte: a string or []byte is a sequence of      *)
(* one-character strings, so that framing, trimming, splitting, the        *)
(* checksum and the numeric conversions are computed as the code computes  *)
(* them.                                                                   *)
(***************************************************************************)
EXTENDS Integers, Sequences, FiniteSets, TLC

(***************************************************************************)
(* Evaluation.  Let(e, F) is F(e) with e evaluated once, whatever the      *)
(* number of times F uses it.                                              *)
(***************************************************************************)

Let(e, F(_)) == CHOOSE r \in {F(v) : v \in {e}} : TRUE

(***************************************************************************)
(* Bytes and strings.                                                      *)
(***************************************************************************)

\* The ASCII code of every byte the modelled byte source can deliver.
Ascii ==
  ("\n" :> 10) @@ ("\r" :> 13) @@ (" " :> 32) @@ ("!" :> 33) @@ ("(" :> 40) @@
  (")" :> 41) @@ ("*" :> 42) @@ ("+" :> 43) @@ ("-" :> 45) @@ ("." :> 46) @@
  ("/" :> 47) @@ ("0" :> 48) @@ ("1" :> 49) @@ ("2" :> 50) @@ ("3" :> 51) @@
  ("4" :> 52) @@ ("5" :> 53) @@ ("6" :> 54) @@ ("7" :> 55) @@ ("8" :> 56) @@
  ("9" :> 57) @@ (":" :> 58) @@ ("A" :> 65) @@ ("B" :> 66) @@ ("C" :> 67) @@
  ("D" :> 68) @@ ("E" :> 69) @@ ("F" :> 70) @@ ("G" :> 71) @@ ("K" :> 75) @@
  ("M" :> 77) @@ ("S" :> 83) @@ ("T" :> 84) @@ ("V" :> 86) @@ ("W" :> 87) @@
  ("X" :> 88) @@ ("Z" :> 90) @@ ("h" :> 104) @@ ("k" :> 107) @@ ("m" :> 109) @@
  ("s" :> 115)

Digits == <<"0", "1", "2", "3", "4", "5", "6", "7", "8", "9">>

\* unicode.IsSpace restricted to the bytes of Ascii.
IsSpace(c) == c \in {" ", "\n", "\r"}

\* bytes.HasPrefix / strings.HasPrefix with a one-byte prefix.
HasPrefix(s, c) == Len(s) >= 1 /\ s[1] = c

\* strings.HasSuffix with a one-byte suffix.
HasSuffix(s, c) == Len(s) >= 1 /\ s[Len(s)] = c

\* The first index from i on at which s holds c; 0 when there is none.
RECURSIVE IndexFrom(_, _, _)
IndexFrom(s, c, i) ==
  IF i > Len(s) THEN 0 ELSE IF s[i] = c THEN i ELSE IndexFrom(s, c, i + 1)

\* The index of the first byte from i on that is no space; Len(s) + 1 when
\* there is none.
RECURSIVE FirstNonSpace(_, _)
FirstNonSpace(s, i) ==
  IF i <= Len(s) /\ IsSpace(s[i]) THEN FirstNonSpace(s, i + 1) ELSE i

\* The index of the last byte up to i that is no space; 0 when there is
\* none.
RECURSIVE LastNonSpace(_, _)
LastNonSpace(s, i) ==
  IF i >= 1 /\ IsSpace(s[i]) THEN LastNonSpace(s, i - 1) ELSE i

\* strings.TrimSpace / bytes.TrimSpace.
TrimSpace(s) ==
  Let(s, LAMBDA v : SubSeq(v, FirstNonSpace(v, 1), LastNonSpace(v, Len(v))))

\* strings.Split(s, sep) with a one-byte separator, from index i on.
RECURSIVE SplitFrom(_, _, _)
SplitFrom(s, sep, i) ==
  Let(IndexFrom(s, sep, i), LAMBDA j :
    IF j = 0 THEN <<SubSeq(s, i, Len(s))>>
    ELSE <<SubSeq(s, i, j - 1)>> \o SplitFrom(s, sep, j + 1))

Split(s, sep) == Let(s, LAMBDA v : SplitFrom(v, sep, 1))

\* strings.SplitN(s, sep, 2) with a one-byte separator.
SplitN2(s, sep) ==
  Let(<<s, IndexFrom(s, sep, 1)>>, LAMBDA v :
    IF v[2] = 0 THEN <<v[1]>>
    ELSE <<SubSeq(v[1], 1, v[2] - 1), SubSeq(v[1], v[2] + 1, Len(v[1]))>>)

(***************************************************************************)
(* Errors.  An error value is a record: its kind, the OBIS code it is      *)
(* about (empty when it is about none) and the wrapped error's kind.       *)
(***************************************************************************)

Err(kind, obis, detail) == [kind |-> kind, obis |-> obis, detail |-> detail]

\* A []error result: Go distinguishes the nil slice from an empty one.
NilErrs == [nil |-> TRUE, list |-> <<>>]
ErrList(l) == [nil |-> FALSE, list |-> l]

(***************************************************************************)
(* Numbers.  A float32 amount is kept as an exact decimal fraction n/d, d  *)
(* a power of ten, in lowest decimal terms; the rounding of float32 is not *)
(* modelled.  Digit strings stay below ten digits, so the range errors of  *)
(* strconv.Atoi and ParseFloat and the int32 truncation of reflect's       *)
(* SetInt are outside the inputs of the model.                             *)
(***************************************************************************)

IsDigit(c) == \E i \in 1..Len(Digits) : Digits[i] = c

DigitVal(c) == (CHOOSE i \in 1..Len(Digits) : Digits[i] = c) - 1

AllDigits(s) == \A i \in 1..Len(s) : IsDigit(s[i])

\* The value of the decimal digits s[1..n].
RECURSIVE DigitsValTo(_, _)
DigitsValTo(s, n) ==
  IF n = 0 THEN 0 ELSE 10 * DigitsValTo(s, n - 1) + DigitVal(s[n])

\* The value of a string of decimal digits.
DigitsVal(s) == Let(s, LAMBDA v : DigitsValTo(v, Len(v)))

RECURSIVE Pow10(_)
Pow10(k) == IF k = 0 THEN 1 ELSE 10 * Pow10(k - 1)

\* The decimal fraction n/d in lowest decimal terms.
RECURSIVE Dec(_, _)
Dec(n, d) ==
  IF d > 1 /\ n % 10 = 0 THEN Dec(n \div 10, d \div 10) ELSE [n |-> n, d |-> d]

DecZero == Dec(0, 1)

\* float32(amount) * factor, factor a whole number.
DecMul(x, factor) == Let(x, LAMBDA v : Dec(v.n * factor, v.d))

HasSign(s) == Len(s) >= 1 /\ s[1] \in {"+", "-"}

Unsigned(s) == IF HasSign(s) THEN Tail(s) ELSE s

SignOf(s) == IF Len(s) >= 1 /\ s[1] = "-" THEN -1 ELSE 1

\* strconv.Atoi: an optional sign and at least one decimal digit.
Atoi(s) ==
  Let(<<s, Unsigned(s)>>, LAMBDA v :
    IF v[2] = <<>> \/ ~AllDigits(v[2]) THEN [ok |-> FALSE, val |-> 0]
    ELSE [ok |-> TRUE, val |-> SignOf(v[1]) * DigitsVal(v[2])])

\* strconv.ParseFloat(s, 32) on the bytes of Ascii: an optional sign, then
\* digits with at most one '.', at least one digit in all.  (Exponents,
\* hexadecimal floats, "inf" and "nan" need bytes that Ascii does not hold.)
ParseFloat(s) ==
  Let(<<s, SplitN2(Unsigned(s), ".")>>, LAMBDA v :
    Let(<<v[1], v[2][1], IF Len(v[2]) = 2 THEN v[2][2] ELSE <<>> >>, LAMBDA w :
      IF AllDigits(w[2]) /\ AllDigits(w[3]) /\ Len(w[2]) + Len(w[3]) >= 1
      THEN [ok |-> TRUE,
            val |-> Dec(SignOf(w[1]) * DigitsVal(w[2] \o w[3]),
                        Pow10(Len(w[3])))]
      ELSE [ok |-> FALSE, val |-> DecZero]))

\* normalizedUnits: the factor of each known unit.
normalizedUnits ==
  (<<"k", "W", "h">> :> 1) @@ (<<"k", "W">> :> 1000) @@ (<<"W">> :> 1) @@
  (<<"s">> :> 1) @@ (<<"m", "3">> :> 1) @@ (<<"A">> :> 1) @@ (<<"V">> :> 1)

\* Lines 371-379 of parseUnit, for the two parts of the value.
parseUnitBits(bits) ==
  Let(ParseFloat(bits[1]), LAMBDA amount :
    IF ~amount.ok
    THEN [ok |-> FALSE, val |-> DecZero, err |-> "could not parse amount"]
    ELSE IF bits[2] \notin DOMAIN normalizedUnits
    THEN [ok |-> FALSE, val |-> DecZero, err |-> "unknown unit"]
    ELSE [ok |-> TRUE, val |-> DecMul(amount.val, normalizedUnits[bits[2]]),
          err |-> "nil"])

\* parseUnit: the value and the error of an OBIS unit value like "123*A".
parseUnit(v) ==
  Let(SplitN2(v, "*"), LAMBDA bits :
    IF Len(bits) # 2 THEN [ok |-> FALSE, val |-> DecZero, err |-> "not a unit"]
    ELSE parseUnitBits(bits))

(***************************************************************************)
(* The checksum.  crc16.Update and crc16.IBMTable are those of the library *)
(* github.com/howeyc/crc16 that line 188 calls: a byte-wise, table-driven, *)
(* reflected CRC-16 whose Update complements the register on entry and on  *)
(* return.                                                                 *)
(***************************************************************************)

\* crc16.IBM, the reflected polynomial 0xA001.
IBM == 40961

\* 0xffff, the seed and the final mask of crc.
Mask16 == 65535

\* Bitwise exclusive or of two naturals, bit by bit.
RECURSIVE XorBits(_, _)
XorBits(a, b) ==
  IF a = 0 THEN b
  ELSE IF b = 0 THEN a
  ELSE (((a % 2) + (b % 2)) % 2) + 2 * XorBits(a \div 2, b \div 2)

\* The exclusive or of any two four-bit values, as a table of tables.
RECURSIVE XorRow(_, _)
XorRow(a, b) ==
  IF b > 15 THEN <<>> ELSE <<XorBits(a, b)>> \o XorRow(a, b + 1)

RECURSIVE XorRows(_)
XorRows(a) == IF a > 15 THEN <<>> ELSE <<XorRow(a, 0)>> \o XorRows(a + 1)

Xor4 == XorRows(0)

\* a ^ b for a 16-bit a and an 8-bit b: only the low byte of a changes.
Xor(a, b) ==
  Let(<<a, b>>, LAMBDA v :
    (v[1] \div 256) * 256
      + 16 * Xor4[((v[1] \div 16) % 16) + 1][(v[2] \div 16) + 1]
      + Xor4[(v[1] % 16) + 1][(v[2] % 16) + 1])

\* One entry of crc16.MakeTable(poly): eight shift steps of the byte i.
RECURSIVE TableEntry(_, _, _)
TableEntry(c, j, poly) ==
  IF j = 0 THEN c
  ELSE Let(IF c % 2 = 1 THEN XorBits(c \div 2, poly) ELSE c \div 2,
           LAMBDA v : TableEntry(v, j - 1, poly))

\* The entries lo..hi of crc16.MakeTable(crc16.IBM), in order.
RECURSIVE TableEntries(_, _)
TableEntries(lo, hi) ==
  IF lo = hi THEN <<TableEntry(lo, 8, IBM)>>
  ELSE TableEntries(lo, (lo + hi) \div 2)
         \o TableEntries(((lo + hi) \div 2) + 1, hi)

\* crc16.IBMTable; entry i is IBMTable[i + 1].
IBMTable == TableEntries(0, 255)

\* A table lookup that leaves the data byte out.
UpdateByteNoData(c, v) == Xor(IBMTable[(c % 256) + 1], c \div 256)

\* One iteration of the loop of crc16.Update: tab[byte(crc)^v] ^ (crc >> 8).
UpdateByte(c, v) == Xor(IBMTable[Xor(c % 256, v) + 1], c \div 256)

\* The loop of crc16.Update over the bytes p[lo..hi], the range halved so
\* that the evaluation stays shallow.
RECURSIVE UpdateLoop(_, _, _, _)
UpdateLoop(c, p, lo, hi) ==
  IF lo > hi THEN c
  ELSE IF lo = hi THEN UpdateByte(c, Ascii[p[lo]])
  ELSE Let(UpdateLoop(c, p, lo, (lo + hi) \div 2), LAMBDA left :
         UpdateLoop(left, p, ((lo + hi) \div 2) + 1, hi))

\* crc16.Update(crc, crc16.IBMTable, p).
Update(c, p) ==
  Let(p, LAMBDA v : Mask16 - UpdateLoop(Mask16 - c, v, 1, Len(v)))

\* crc(data) == crc16.Update(0xffff, crc16.IBMTable, data) ^ 0xffff
crc(bytes) == Mask16 - Update(Mask16, bytes)

HexDigits ==
  <<"0", "1", "2", "3", "4", "5", "6", "7", "8", "9", "A", "B", "C", "D", "E", "F">>

IsHexDigit(c) == \E i \in 1..Len(HexDigits) : HexDigits[i] = c

HexVal(c) == (CHOOSE i \in 1..Len(HexDigits) : HexDigits[i] = c) - 1

\* 1<<31 - 1, the largest value of strconv.ParseInt(s, 16, 32).
MaxInt32 == 2147483647

\* The value of the hexadecimal digits s[i..], acc that of those before; -1
\* when the value leaves 32 bits (a range error).
RECURSIVE HexDigitsVal(_, _, _)
HexDigitsVal(s, i, acc) ==
  IF acc = -1 \/ i > Len(s) THEN acc
  ELSE Let(IF acc > (MaxInt32 - HexVal(s[i])) \div 16 THEN -1
           ELSE 16 * acc + HexVal(s[i]),
           LAMBDA v : HexDigitsVal(s, i + 1, v))

\* strconv.ParseInt(s, 16, 32) on the bytes of Ascii (of the hexadecimal
\* letters Ascii holds the upper-case ones only).
ParseHex(s) ==
  Let(<<s, Unsigned(s)>>, LAMBDA u :
    IF u[2] = <<>> \/ \E i \in 1..Len(u[2]) : ~IsHexDigit(u[2][i])
    THEN [ok |-> FALSE, val |-> 0]
    ELSE Let(HexDigitsVal(u[2], 1, 0), LAMBDA v :
           IF v = -1 THEN [ok |-> FALSE, val |-> 0]
           ELSE [ok |-> TRUE, val |-> SignOf(u[1]) * v]))

(***************************************************************************)
(* The records and their tagged fields (lines 111-178).                    *)
(***************************************************************************)

\* The tagged fields of ElectricityData, in declaration order: the field, its obis
\* tag, its type tag and whether it is a pointer (an optional field).
ElectricityDataFields == <<
  [name |-> "KWh", obis |-> <<"1", "-", "0", ":", "1", ".", "8", ".", "2">>,
   type |-> "unit", ptr |-> FALSE],
  [name |-> "KWhLow", obis |-> <<"1", "-", "0", ":", "1", ".", "8", ".", "1">>,
   type |-> "unit", ptr |-> FALSE],
  [name |-> "KWhOut", obis |-> <<"1", "-", "0", ":", "2", ".", "8", ".", "2">>,
   type |-> "unit", ptr |-> FALSE],
  [name |-> "KWhOutLow", obis |-> <<"1", "-", "0", ":", "2", ".", "8", ".", "1">>,
   type |-> "unit", ptr |-> FALSE],
  [name |-> "Tariff", obis |-> <<"0", "-", "0", ":", "9", "6", ".", "1", "4", ".", "0">>,
   type |-> "int", ptr |-> FALSE],
  [name |-> "W", obis |-> <<"1", "-", "0", ":", "1", ".", "7", ".", "0">>,
   type |-> "unit", ptr |-> FALSE],
  [name |-> "WOut", obis |-> <<"1", "-", "0", ":", "2", ".", "7", ".", "0">>,
   type |-> "unit", ptr |-> FALSE],
  [name |-> "Threshold", obis |-> <<"0", "-", "0", ":", "1", "7", ".", "0", ".", "0">>,
   type |-> "unit", ptr |-> TRUE],
  [name |-> "Switch", obis |-> <<"0", "-", "0", ":", "9", "6", ".", "3", ".", "1", "0">>,
   type |-> "id", ptr |-> TRUE],
  [name |-> "PowerFailures", obis |-> <<"0", "-", "0", ":", "9", "6", ".", "7", ".", "2", "1">>,
   type |-> "int", ptr |-> FALSE],
  [name |-> "LongPowerFailures", obis |-> <<"0", "-", "0", ":", "9", "6", ".", "7", ".", "9">>,
   type |-> "int", ptr |-> FALSE],
  [name |-> "PowerFailuresLog", obis |-> <<"1", "-", "0", ":", "9", "9", ".", "9", "7", ".", "0">>,
   type |-> "log", ptr |-> FALSE],
  [name |-> "L1VoltageSags", obis |-> <<"1", "-", "0", ":", "3", "2", ".", "3", "2", ".", "0">>,
   type |-> "int", ptr |-> FALSE],
  [name |-> "L1VoltageSwells", obis |-> <<"1", "-", "0", ":", "3", "2", ".", "3", "6", ".", "0">>,
   type |-> "int", ptr |-> FALSE],
  [name |-> "L1Current", obis |-> <<"1", "-", "0", ":", "3", "1", ".", "7", ".", "0">>,
   type |-> "unit", ptr |-> FALSE],
  [name |-> "L1Voltage", obis |-> <<"1", "-", "0", ":", "3", "2", ".", "7", ".", "0">>,
   type |-> "unit", ptr |-> TRUE],
  [name |-> "L1Power", obis |-> <<"1", "-", "0", ":", "2", "1", ".", "7", ".", "0">>,
   type |-> "unit", ptr |-> FALSE],
  [name |-> "L1PowerOut", obis |-> <<"1", "-", "0", ":", "2", "2", ".", "7", ".", "0">>,
   type |-> "unit", ptr |-> FALSE]
>>

\* The tagged fields of MultiphaseElectricityData, in declaration order: the field, its obis
\* tag, its type tag and whether it is a pointer (an optional field).
MultiphaseElectricityDataFields == <<
  [name |-> "L2VoltageSags", obis |-> <<"1", "-", "0", ":", "5", "2", ".", "3", "2", ".", "0">>,
   type |-> "int", ptr |-> FALSE],
  [name |-> "L2VoltageSwells", obis |-> <<"1", "-", "0", ":", "5", "2", ".", "3", "6", ".", "0">>,
   type |-> "int", ptr |-> FALSE],
  [name |-> "L2Current", obis |-> <<"1", "-", "0", ":", "5", "1", ".", "7", ".", "0">>,
   type |-> "unit", ptr |-> FALSE],
  [name |-> "L2Voltage", obis |-> <<"1", "-", "0", ":", "5", "2", ".", "7", ".", "0">>,
   type |-> "unit", ptr |-> TRUE],
  [name |-> "L2Power", obis |-> <<"1", "-", "0", ":", "4", "1", ".", "7", ".", "0">>,
   type |-> "unit", ptr |-> FALSE],
  [name |-> "L2PowerOut", obis |-> <<"1", "-", "0", ":", "4", "2", ".", "7", ".", "0">>,
   type |-> "unit", ptr |-> FALSE],
  [name |-> "L3VoltageSags", obis |-> <<"1", "-", "0", ":", "7", "2", ".", "3", "2", ".", "0">>,
   type |-> "int", ptr |-> FALSE],
  [name |-> "L3VoltageSwells", obis |-> <<"1", "-", "0", ":", "7", "2", ".", "3", "6", ".", "0">>,
   type |-> "int", ptr |-> FALSE],
  [name |-> "L3Current", obis |-> <<"1", "-", "0", ":", "7", "1", ".", "7", ".", "0">>,
   type |-> "unit", ptr |-> FALSE],
  [name |-> "L3Voltage", obis |-> <<"1", "-", "0", ":", "7", "2", ".", "7", ".", "0">>,
   type |-> "unit", ptr |-> TRUE],
  [name |-> "L3Power", obis |-> <<"1", "-", "0", ":", "6", "1", ".", "7", ".", "0">>,
   type |-> "unit", ptr |-> FALSE],
  [name |-> "L3PowerOut", obis |-> <<"1", "-", "0", ":", "6", "2", ".", "7", ".", "0">>,
   type |-> "unit", ptr |-> FALSE]
>>

\* The tagged fields of GasData, in declaration order: the field, its obis
\* tag, its type tag and whether it is a pointer (an optional field).
GasDataFields == <<
  [name |-> "Type", obis |-> <<"0", "-", "1", ":", "2", "4", ".", "1", ".", "0">>,
   type |-> "id", ptr |-> FALSE],
  [name |-> "Id", obis |-> <<"0", "-", "1", ":", "9", "6", ".", "1", ".", "0">>,
   type |-> "id", ptr |-> FALSE],
  [name |-> "Switch", obis |-> <<"0", "-", "1", ":", "2", "4", ".", "4", ".", "0">>,
   type |-> "id", ptr |-> TRUE],
  [name |-> "LastRecord", obis |-> <<"0", "-", "1", ":", "2", "4", ".", "2", ".", "1">>,
   type |-> "gasrecord", ptr |-> FALSE]
>>

\* The tagged fields of Telegram, in declaration order: the field, its obis
\* tag, its type tag and whether it is a pointer (an optional field).
TelegramFields == <<
  [name |-> "P1Version", obis |-> <<"1", "-", "3", ":", "0", ".", "2", ".", "8">>,
   type |-> "id", ptr |-> FALSE],
  [name |-> "TimeStamp", obis |-> <<"0", "-", "0", ":", "1", ".", "0", ".", "0">>,
   type |-> "id", ptr |-> FALSE],
  [name |-> "ID", obis |-> <<"0", "-", "0", ":", "9", "6", ".", "1", ".", "1">>,
   type |-> "id", ptr |-> FALSE],
  [name |-> "MsgNumeric", obis |-> <<"0", "-", "0", ":", "9", "6", ".", "1", "3", ".", "1">>,
   type |-> "id", ptr |-> TRUE],
  [name |-> "MsgTxt", obis |-> <<"0", "-", "0", ":", "9", "6", ".", "1", "3", ".", "0">>,
   type |-> "id", ptr |-> TRUE]
>>

\* The zero value of a field of the given type tag: a string, an int32, a
\* float32, a GasRecord.
ZeroOf(type) ==
  CASE type = "id" -> <<>>
    [] type = "log" -> <<>>
    [] type = "int" -> 0
    [] type = "unit" -> DecZero
    [] type = "gasrecord" -> [TimeStamp |-> <<>>, Value |-> DecZero]

FieldNames(fields) == {fields[i].name : i \in 1..Len(fields)}

FieldOf(fields, name) ==
  fields[CHOOSE i \in 1..Len(fields) : fields[i].name = name]

\* "var e ElectricityData": every field at its zero value; a pointer is <<>>
\* when nil and <<v>> when it points to v.
ZeroStruct(fields) ==
  [n \in FieldNames(fields) |->
     IF FieldOf(fields, n).ptr THEN <<>> ELSE ZeroOf(FieldOf(fields, n).type)]

\* A map[string][]string is a function from the codes it holds.
EmptyMap == [c \in {} |-> <<>>]

MapDelete(data, key) == [c \in DOMAIN data \ {key} |-> data[c]]

\* "var ret Telegram" with the header fields of lines 293-294 set.
NewTelegram(marker, id) ==
  ZeroStruct(TelegramFields) @@
  [HeaderMarker |-> marker, HeaderId |-> id, Electricity |-> <<>>,
   MultiphaseElectricity |-> <<>>, Gas |-> <<>>, Other |-> EmptyMap]

(***************************************************************************)
(* fillStruct (lines 384-461).                                             *)
(***************************************************************************)

\* field.Set...: through the pointer of line 404 when the field is one.
SetField(sv, f, v) == [sv EXCEPT ![f.name] = IF f.ptr THEN <<v>> ELSE v]

WrongArgs(f, st) ==
  [st EXCEPT !.ret =
     Append(@, Err("wrong number of arguments", f.obis, "nil"))]

\* The switch of lines 407-457 on a present code's arguments.
DecodeField(f, args, st) ==
  CASE f.type = "id" ->
         IF Len(args) # 1 THEN WrongArgs(f, st)
         ELSE [st EXCEPT !.sv = SetField(@, f, args[1])]
    [] f.type = "int" ->
         IF Len(args) # 1 THEN WrongArgs(f, st)
         ELSE Let(Atoi(args[1]), LAMBDA i :
                IF ~i.ok
                THEN [st EXCEPT !.ret =
                        Append(@, Err("could not parse amount", f.obis, "Atoi"))]
                ELSE [st EXCEPT !.sv = SetField(@, f, i.val)])
    [] f.type = "gasrecord" ->
         IF Len(args) # 2 THEN WrongArgs(f, st)
         ELSE Let(parseUnit(args[2]), LAMBDA v :
                IF ~v.ok
                THEN [st EXCEPT !.ret = Append(@, Err("value", f.obis, v.err))]
                ELSE [st EXCEPT !.sv =
                        SetField(@, f, [TimeStamp |-> args[1], Value |-> v.val])])
    [] f.type = "unit" ->
         IF Len(args) # 1 THEN WrongArgs(f, st)
         ELSE Let(parseUnit(args[1]), LAMBDA v :
                IF ~v.ok
                THEN [st EXCEPT !.ret = Append(@, Err("unit", f.obis, v.err))]
                ELSE [st EXCEPT !.sv = SetField(@, f, v.val)])
    [] OTHER -> st

\* Lines 391-399 without the test of line 394: an absent optional field is
\* an error too.
MissingFieldAlways(f, st) ==
  [st EXCEPT !.ret = Append(@, Err("Missing data", f.obis, "nil"))]

\* Lines 391-399: what an absent code does to the struct, map and errors.
MissingField(f, st) ==
  IF ~f.ptr
  THEN [st EXCEPT !.ret = Append(@, Err("Missing data", f.obis, "nil"))]
  ELSE st

\* Lines 400-406 without the delete of line 400.
TakeFieldKeep(f, st) ==
  [sv |-> IF f.ptr THEN [st.sv EXCEPT ![f.name] = <<ZeroOf(f.type)>>]
          ELSE st.sv,
   data |-> st.data,
   ret |-> st.ret]

\* Lines 400-406: the code leaves the map and a pointer field is given a
\* fresh zero value to point to.
TakeField(f, st) ==
  [sv |-> IF f.ptr THEN [st.sv EXCEPT ![f.name] = <<ZeroOf(f.type)>>]
          ELSE st.sv,
   data |-> MapDelete(st.data, f.obis),
   ret |-> st.ret]

\* One iteration of the loop of line 388, for the tagged field f.
FillField(f, st) ==
  IF f.obis \notin DOMAIN st.data THEN MissingField(f, st)
  ELSE Let(TakeField(f, st), LAMBDA st1 :
         DecodeField(f, st.data[f.obis], st1))

\* The loop of line 388 from the i-th tagged field on.
RECURSIVE FillFrom(_, _, _)
FillFrom(fields, i, st) ==
  IF i > Len(fields) THEN st
  ELSE Let(FillField(fields[i], st), LAMBDA st1 :
         FillFrom(fields, i + 1, st1))

\* fillStruct(s, data): the struct and the map as it leaves them, and the
\* errors it returns.
fillStruct(fields, sv, data) ==
  Let([sv |-> sv, data |-> data, ret |-> <<>>], LAMBDA st :
    FillFrom(fields, 1, st))

(***************************************************************************)
(* parseLines (lines 225-263).                                             *)
(***************************************************************************)

\* Lines 232-239, from raw line i on: continuation lines joined to the line
\* before them.  The index lines[len(lines)-1] is out of range when there is
\* none.
RECURSIVE MergeLines(_, _, _)
MergeLines(rawLines, i, lines) ==
  IF i > Len(rawLines) THEN [panic |-> FALSE, lines |-> lines]
  ELSE IF HasPrefix(rawLines[i], "(")
  THEN IF lines = <<>> THEN [panic |-> TRUE, lines |-> lines]
       ELSE Let([lines EXCEPT ![Len(lines)] = @ \o rawLines[i]], LAMBDA l :
              MergeLines(rawLines, i + 1, l))
  ELSE Let(Append(lines, rawLines[i]), LAMBDA l :
         MergeLines(rawLines, i + 1, l))

\* Lines 246-252: the arguments of one line from the j-th bit on, or the
\* malformed one.
RECURSIVE ParseArgs(_, _, _)
ParseArgs(bits, j, args) ==
  IF j > Len(bits) THEN [ok |-> TRUE, args |-> args]
  ELSE IF ~HasSuffix(bits[j], ")") THEN [ok |-> FALSE, args |-> <<>>]
  ELSE Let(Append(args, SubSeq(bits[j], 1, Len(bits[j]) - 1)), LAMBDA a :
         ParseArgs(bits, j + 1, a))

\* Lines 243-259 without the test of lines 254-258: a later line with the
\* same code replaces the earlier one.
ParseLineLastWins(bits, ret) ==
  Let(ParseArgs(bits, 2, <<>>), LAMBDA a :
    IF ~a.ok
    THEN [status |-> "err", ret |-> EmptyMap, err |-> "Malformed argument"]
    ELSE [status |-> "ok",
          ret |-> (bits[1] :> a.args) @@ ret, err |-> "nil"])

\* Lines 243-259 for one line, split into bits.
ParseLine(bits, ret) ==
  Let(ParseArgs(bits, 2, <<>>), LAMBDA a :
    IF ~a.ok
    THEN [status |-> "err", ret |-> EmptyMap, err |-> "Malformed argument"]
    ELSE IF bits[1] \in DOMAIN ret
    THEN [status |-> "err", ret |-> EmptyMap,
          err |-> "Multiple occurances of OBIS"]
    ELSE [status |-> "ok", ret |-> (bits[1] :> a.args) @@ ret, err |-> "nil"])

\* Lines 242-260, from line i on.
RECURSIVE ParseFrom(_, _, _)
ParseFrom(lines, i, ret) ==
  IF i > Len(lines) THEN [status |-> "ok", ret |-> ret, err |-> "nil"]
  ELSE Let(Split(lines[i], "("), LAMBDA bits :
         Let(ParseLine(bits, ret), LAMBDA r :
           IF r.status = "ok" THEN ParseFrom(lines, i + 1, r.ret) ELSE r))

\* Lines 242-260 applied to the raw lines, as if lines 232-239 joined
\* nothing.
parseLinesNoMerge(rawLines) == ParseFrom(rawLines, 1, EmptyMap)

\* parseLines(rawLines): status "ok" with the map, "err" with the error, or
\* "panic" (the run-time error of line 235).
parseLines(rawLines) ==
  Let(rawLines, LAMBDA raw :
    Let(MergeLines(raw, 1, <<>>), LAMBDA m :
      IF m.panic THEN [status |-> "panic", ret |-> EmptyMap, err |-> "nil"]
      ELSE ParseFrom(m.lines, 1, EmptyMap)))

(***************************************************************************)
(* The decoding part of readTelegram (lines 335-362).                      *)
(***************************************************************************)

MarkerElectricity == <<"1", "-", "0", ":", "1", ".", "8", ".", "1">>
MarkerMultiphase == <<"1", "-", "0", ":", "4", "1", ".", "7", ".", "0">>
MarkerGas == <<"0", "-", "1", ":", "2", "4", ".", "2", ".", "1">>

\* Lines 335-336: fillStruct(&ret, data).
FillTelegram(t, data) ==
  Let(fillStruct(TelegramFields, t, data), LAMBDA r :
    [t |-> r.sv, data |-> r.data, errs |-> r.ret])

\* Lines 339-341, 345-347 and 351-353: a fresh record is filled, its errors
\* join the list and the block points to it.
FillPresent(st, fields, slot) ==
  Let(fillStruct(fields, ZeroStruct(fields), st.data), LAMBDA r :
    [t |-> [st.t EXCEPT ![slot] = <<r.sv>>], data |-> r.data,
     errs |-> st.errs \o r.ret])

\* Lines 338-354 without the tests of the marker codes.
FillBlockAlways(st, marker, fields, slot) == FillPresent(st, fields, slot)

\* Lines 338-342, 344-348 and 350-354: a block is filled when its marker
\* code is in the map.
FillBlock(st, marker, fields, slot) ==
  Let(st, LAMBDA v :
    IF marker \in DOMAIN v.data THEN FillPresent(v, fields, slot) ELSE v)

FillElectricity(st) ==
  FillBlock(st, MarkerElectricity, ElectricityDataFields, "Electricity")

FillMultiphase(st) ==
  FillBlock(st, MarkerMultiphase, MultiphaseElectricityDataFields,
            "MultiphaseElectricity")

FillGas(st) == FillBlock(st, MarkerGas, GasDataFields, "Gas")

\* Lines 356-362: the residual map and the two results.
Finish(st) ==
  Let(st, LAMBDA v :
    [t |-> <<[v.t EXCEPT !.Other = v.data]>>,
     errs |-> IF Len(v.errs) = 0 THEN NilErrs ELSE ErrList(v.errs)])

\* Lines 335-362 as a whole.
Decode(t, data) ==
  Finish(FillGas(FillMultiphase(FillElectricity(FillTelegram(t, data)))))

(***************************************************************************)
(* readTelegram after the footer line (lines 316-362).                     *)
(***************************************************************************)

\* Line 325 without its comparison: any footer value passes.
CrcAny(crc1, crc2) == TRUE

\* Line 325: int64(crc1) != crc2 fails the telegram.
CrcOk(crc1, crc2) == crc1 = crc2

Fatal(kind) ==
  [panic |-> FALSE, t |-> <<>>, errs |-> ErrList(<<Err(kind, <<>>, "nil")>>)]

\* Lines 329-362: the lines are parsed and the records filled.
ParseAndDecode(lines, tele) ==
  Let(parseLines(lines), LAMBDA p :
    IF p.status = "panic" THEN [panic |-> TRUE, t |-> <<>>, errs |-> NilErrs]
    ELSE IF p.status = "err" THEN Fatal(p.err)
    ELSE Let(Decode(tele, p.ret), LAMBDA r :
           [panic |-> FALSE, t |-> r.t, errs |-> r.errs]))

\* The results of readTelegram once the footer line is read: t is <<>> for
\* a nil *Telegram and <<v>> for a pointer to v; panic tells that the call
\* never returned.
AfterFooter(body, footer, lines, tele) ==
  Let(ParseHex(TrimSpace(Tail(footer))), LAMBDA crc2 :
    IF ~crc2.ok THEN Fatal("Could not parse checksum")
    ELSE IF ~CrcOk(crc(Append(body, "!")), crc2.val) THEN Fatal("CRC mismatch")
    ELSE ParseAndDecode(lines, tele))

(***************************************************************************)
(* The byte source.  One ReadBytes('\n') call returns a chunk: the bytes   *)
(* up to and including the next '\n' with a nil error, or the bytes read   *)
(* before a failure with the error.                                        *)
(***************************************************************************)

\* How many data lines the byte source sends before it sends a footer.
MaxData == 3

Chunk(line, err) == [line |-> line, err |-> err]

HdrLong == <<"/", "K", "S", "M", "5", " ", "A", "\r", "\n">>
HdrFive == <<"/", "K", "S", "\r", "\n">>
HdrShort == <<"/", "\r", "\n">>
Blank == <<"\r", "\n">>
LineVersion ==
  <<"1", "-", "3", ":", "0", ".", "2", ".", "8", "(", "5", "0", ")", "\r", "\n">>
LineTime ==
  <<"0", "-", "0", ":", "1", ".", "0", ".", "0", "(", "T", ")", "\r", "\n">>
LineID ==
  <<"0", "-", "0", ":", "9", "6", ".", "1", ".", "1", "(", "A", ")", "\r", "\n">>
LineCont == <<"(", "B", ")", "\r", "\n">>
LineOpen == <<"9", "(", "A", "\r", "\n">>
FooterZero == <<"!", "0", "0", "0", "0", "\r", "\n">>
FooterEmpty == <<"!", "\r", "\n">>

Headers == {HdrLong, HdrFive, HdrShort}
DataLines == {LineVersion, LineTime, LineID, LineCont, LineOpen}
Footers == {FooterZero, FooterEmpty}

\* A failed read that delivered no byte (an EOF, a time-out).
ReadFailure == Chunk(<<>>, TRUE)

\* The four upper-case hexadecimal digits a meter prints for a checksum.
Hex4(v) ==
  <<HexDigits[(v \div 4096) + 1], HexDigits[((v \div 256) % 16) + 1],
    HexDigits[((v \div 16) % 16) + 1], HexDigits[(v % 16) + 1]>>

\* The bytes of the telegram the meter is sending: those from its last
\* header line on.
RECURSIVE MeterBody(_, _)
MeterBody(cs, n) ==
  IF n = 0 THEN <<>>
  ELSE IF HasPrefix(cs[n].line, "/") THEN cs[n].line
  ELSE MeterBody(cs, n - 1) \o cs[n].line

\* The footer line a meter sends after the chunks cs: the CRC-16 of its
\* telegram up to and including the '!'.
MeterFooter(cs) ==
  Let(crc(Append(MeterBody(cs, Len(cs)), "!")), LAMBDA v :
    <<"!">> \o Hex4(v) \o <<"\r", "\n">>)

(***************************************************************************)
(* The program state.                                                      *)
(***************************************************************************)

VARIABLES
  pc,           \* where the driver goroutine of NewMeter is
  running,      \* m.running
  C,            \* the telegrams buffered in channel m.C
  closed,       \* whether m.C is closed
  checkSumBody, \* readTelegram's checkSumBody
  rawLines,     \* readTelegram's rawLines
  ret,          \* readTelegram's ret, the Telegram under construction
  t,            \* the driver's t: <<>> is nil
  errs,         \* the driver's err2
  chunks,       \* the chunks read by the call in progress or just returned,
                \* but for the lines skipped before the header
  data,         \* the map[string][]string given to the decoding part
  prev,         \* the decoding part's state before its latest step
  st,           \* the decoding part's state: ret, data and errs of
                \* readTelegram
  stage,        \* the latest step of the decoding part
  input,        \* the byte source: when fed, the bytes of a finite stream
                \* that are not read yet; its field of tells what the stream
                \* was made of
  rcvd,         \* for a finite stream, the telegrams received from m.C so
                \* far, each with the consumer that received it
  entries,      \* the codes and arguments the data lines in rawLines were
                \* written from, when parseLines is applied on its own
  parsed        \* what parseLines returned for rawLines, when it is applied
                \* on its own

drvVars ==
  <<pc, running, C, closed, checkSumBody, rawLines, ret, t, errs, chunks>>

decVars == <<data, prev, st, stage>>

envVars == <<input, rcvd>>

linVars == <<entries, parsed>>

vars == <<drvVars, decVars, envVars, linVars>>

\* parseLines has not been applied on its own.
NotParsed == [status |-> "none", ret |-> EmptyMap, err |-> "nil"]

\* make(chan *Telegram, 1)
ChanCap == 1

\* What a finite stream was made of: the header ids of its telegrams, and
\* for a telegram with one byte changed the position and the new byte.
Made(kind, ids, body, pos, byte) ==
  [kind |-> kind, ids |-> ids, body |-> body, pos |-> pos, byte |-> byte]

\* A byte source that is no finite stream: any line may come next.
NoInput ==
  [fed |-> FALSE, bytes |-> <<>>, of |-> Made("none", <<>>, <<>>, 0, "0")]

\* A byte source that delivers the bytes of a finite stream and then fails.
Fed(bytes, of) == [fed |-> TRUE, bytes |-> bytes, of |-> of]

\* m.r.ReadBytes('\n') on a finite stream: the bytes up to and including
\* the first '\n', or all the bytes left and an error (io.EOF).
ReadBytes(bytes) ==
  Let(IndexFrom(bytes, "\n", 1), LAMBDA j :
    IF j = 0 THEN [chunk |-> Chunk(bytes, TRUE), rest |-> <<>>]
    ELSE [chunk |-> Chunk(SubSeq(bytes, 1, j), FALSE),
          rest |-> SubSeq(bytes, j + 1, Len(bytes))])

\* The byte source after one ReadBytes.
AfterRead ==
  IF input.fed THEN [input EXCEPT !.bytes = ReadBytes(@).rest] ELSE input

\* How many consumers receive from m.C.
MaxConsumers == 2

\* The state of the decoding part at line 335: ret with its header fields,
\* the map of parseLines, var errs []error.
DecodeStart(m) ==
  [t |-> NewTelegram(<<"/", "K", "S", "M", "5", " ">>, <<"A">>), data |-> m,
   errs |-> <<>>]

Init ==
  /\ pc = "loop"
  /\ running = TRUE
  /\ C = <<>>
  /\ closed = FALSE
  /\ checkSumBody = <<>>
  /\ rawLines = <<>>
  /\ ret = NewTelegram(<<>>, <<>>)
  /\ t = <<>>
  /\ errs = NilErrs
  /\ chunks = <<>>
  /\ data = EmptyMap
  /\ prev = DecodeStart(EmptyMap)
  /\ st = DecodeStart(EmptyMap)
  /\ stage = "idle"
  /\ input = NoInput
  /\ rcvd = <<>>
  /\ entries = <<>>
  /\ parsed = NotParsed

\* What the next ReadBytes may return.  From a finite stream: its next line.
\* Else any of the lines or a failure; in the data loop the data lines, a new
\* header, a failure or a footer, one of them the footer the meter computes.
Source ==
  IF input.fed THEN {ReadBytes(input.bytes).chunk}
  ELSE IF pc = "data"
  THEN {Chunk(l, FALSE) : l \in DataLines \cup {HdrLong} \cup Footers}
         \cup {ReadFailure, Chunk(MeterFooter(chunks), FALSE)}
  ELSE {Chunk(l, FALSE) : l \in Headers \cup {Blank} \cup DataLines \cup Footers}
         \cup {ReadFailure}

\* readTelegram returns (tt, ee) to line 211.
Return(tt, ee) ==
  /\ pc' = "returned"
  /\ t' = tt
  /\ errs' = ee

\* Line 210 with a loop condition that may fail while m.running is set.
LoopCheckEarly ==
  /\ pc = "loop"
  /\ \E seen \in {TRUE, FALSE} :
       IF seen
       THEN /\ pc' = "header"
            /\ UNCHANGED <<running, C, closed, checkSumBody, rawLines, ret,
                           t, errs, chunks>>
       ELSE /\ pc' = "closed"
            /\ closed' = TRUE
            /\ UNCHANGED <<running, C, checkSumBody, rawLines, ret, t, errs,
                           chunks>>
  /\ UNCHANGED decVars
  /\ UNCHANGED envVars
  /\ UNCHANGED linVars

\* Line 210: the loop condition.  m.running is read without synchronisation,
\* so after it was cleared the read may still see it set.
LoopCheck ==
  /\ pc = "loop"
  /\ \E seen \in (IF running THEN {TRUE} ELSE {TRUE, FALSE}) :
       IF seen
       THEN /\ pc' = "header"
            /\ UNCHANGED <<running, C, closed, checkSumBody, rawLines, ret,
                           t, errs, chunks>>
       ELSE /\ pc' = "closed"
            /\ closed' = TRUE
            /\ UNCHANGED <<running, C, checkSumBody, rawLines, ret, t, errs,
                           chunks>>
  /\ UNCHANGED decVars
  /\ UNCHANGED envVars
  /\ UNCHANGED linVars

\* Lines 274-294 without the test of line 279: the first line read is taken
\* as the header, whatever it starts with.
ReadHeaderNoSkip ==
  /\ pc = "header"
  /\ \E c \in Source :
       IF c.err
       THEN /\ Return(<<>>, ErrList(<<Err("io", <<>>, "nil")>>))
            /\ chunks' = <<c>>
            /\ UNCHANGED <<checkSumBody, ret>>
       ELSE /\ checkSumBody' = c.line
            /\ chunks' = <<c>>
            /\ IF Len(c.line) < 5
               THEN /\ Return(<<>>, ErrList(<<Err("Header line too short",
                                                  <<>>, "nil")>>))
                    /\ UNCHANGED ret
               ELSE IF Len(c.line) < 6
               THEN /\ pc' = "panic"
                    /\ UNCHANGED <<t, errs, ret>>
               ELSE /\ pc' = "sep"
                    /\ ret' = NewTelegram(SubSeq(c.line, 1, 6),
                                TrimSpace(SubSeq(c.line, 7, Len(c.line))))
                    /\ UNCHANGED <<t, errs>>
  /\ UNCHANGED <<running, C, closed, rawLines>>
  /\ UNCHANGED decVars
  /\ input' = AfterRead
  /\ UNCHANGED rcvd
  /\ UNCHANGED linVars

\* Lines 274-294: one ReadBytes of the wait for the header, and the header.
ReadHeader ==
  /\ pc = "header"
  /\ \E c \in Source :
       IF c.err
       THEN /\ Return(<<>>, ErrList(<<Err("io", <<>>, "nil")>>))
            /\ chunks' = <<c>>
            /\ UNCHANGED <<checkSumBody, ret>>
       ELSE IF ~HasPrefix(c.line, "/")
       THEN UNCHANGED <<pc, t, errs, checkSumBody, ret, chunks>>
       ELSE /\ checkSumBody' = c.line
            /\ chunks' = <<c>>
            /\ IF Len(c.line) < 5
               THEN /\ Return(<<>>, ErrList(<<Err("Header line too short",
                                                  <<>>, "nil")>>))
                    /\ UNCHANGED ret
               ELSE IF Len(c.line) < 6
               THEN /\ pc' = "panic"
                    /\ UNCHANGED <<t, errs, ret>>
               ELSE /\ pc' = "sep"
                    /\ ret' = NewTelegram(SubSeq(c.line, 1, 6),
                                TrimSpace(SubSeq(c.line, 7, Len(c.line))))
                    /\ UNCHANGED <<t, errs>>
  /\ UNCHANGED <<running, C, closed, rawLines>>
  /\ UNCHANGED decVars
  /\ input' = AfterRead
  /\ UNCHANGED rcvd
  /\ UNCHANGED linVars

\* Lines 296-303: the line after the header.
ReadSep ==
  /\ pc = "sep"
  /\ \E c \in Source :
       /\ chunks' = Append(chunks, c)
       /\ IF c.err
          THEN /\ Return(<<>>, ErrList(<<Err("io", <<>>, "nil")>>))
               /\ UNCHANGED checkSumBody
          ELSE IF TrimSpace(c.line) # <<>>
          THEN /\ Return(<<>>, ErrList(<<Err("Line after header is not blank",
                                             <<>>, "nil")>>))
               /\ UNCHANGED checkSumBody
          ELSE /\ pc' = "data"
               /\ checkSumBody' = checkSumBody \o c.line
               /\ UNCHANGED <<t, errs>>
  /\ UNCHANGED <<running, C, closed, rawLines, ret>>
  /\ UNCHANGED decVars
  /\ input' = AfterRead
  /\ UNCHANGED rcvd
  /\ UNCHANGED linVars

\* Lines 306-314 and, at the footer line, 316-362: one ReadBytes of the data
\* loop.  The error of line 307 is not looked at.
ReadData ==
  /\ pc = "data"
  /\ \E c \in Source :
       /\ chunks' = Append(chunks, c)
       /\ IF HasPrefix(c.line, "!")
          THEN /\ \E r \in {AfterFooter(checkSumBody, c.line, rawLines, ret)} :
                    IF r.panic
                    THEN pc' = "panic" /\ UNCHANGED <<t, errs>>
                    ELSE Return(r.t, r.errs)
               /\ UNCHANGED <<checkSumBody, rawLines>>
          ELSE /\ Len(rawLines) < MaxData \/ (input.fed /\ input.bytes # <<>>)
               /\ checkSumBody' = checkSumBody \o c.line
               /\ rawLines' = Append(rawLines, TrimSpace(c.line))
               /\ UNCHANGED <<pc, t, errs>>
  /\ UNCHANGED <<running, C, closed, ret>>
  /\ UNCHANGED decVars
  /\ input' = AfterRead
  /\ UNCHANGED rcvd
  /\ UNCHANGED linVars

\* Lines 212-215: a non-nil err2 is logged and the loop continues; else the
\* driver goes on to line 216.  The locals of the finished call are gone.
Handle ==
  /\ pc = "returned"
  /\ IF ~errs.nil
     THEN pc' = "loop" /\ t' = <<>> /\ errs' = NilErrs /\ chunks' = <<>>
     ELSE pc' = "send" /\ UNCHANGED <<t, errs, chunks>>
  /\ checkSumBody' = <<>>
  /\ rawLines' = <<>>
  /\ ret' = NewTelegram(<<>>, <<>>)
  /\ UNCHANGED <<running, C, closed>>
  /\ UNCHANGED decVars
  /\ UNCHANGED envVars
  /\ UNCHANGED linVars

\* Line 216 on a channel that never makes the sender wait.
SendNoWait ==
  /\ pc = "send"
  /\ C' = Append(C, t[1])
  /\ pc' = "loop"
  /\ t' = <<>>
  /\ chunks' = <<>>
  /\ UNCHANGED <<running, closed, checkSumBody, rawLines, ret, errs>>
  /\ UNCHANGED decVars
  /\ UNCHANGED envVars
  /\ UNCHANGED linVars

\* Line 216: m.C <- t, which waits for room in the buffer.
Send ==
  /\ pc = "send"
  /\ Len(C) < ChanCap
  /\ C' = Append(C, t[1])
  /\ pc' = "loop"
  /\ t' = <<>>
  /\ chunks' = <<>>
  /\ UNCHANGED <<running, closed, checkSumBody, rawLines, ret, errs>>
  /\ UNCHANGED decVars
  /\ UNCHANGED envVars
  /\ UNCHANGED linVars

\* The history of receives after consumer k received w; it is kept for a
\* finite stream, where it stays finite.
Received(k, w) ==
  IF input.fed THEN Append(rcvd, [by |-> k, t |-> w]) ELSE rcvd

\* A receive that leaves the telegram in the channel.
RecvPeek ==
  /\ Len(C) > 0
  /\ \E k \in 1..MaxConsumers : rcvd' = Received(k, Head(C))
  /\ UNCHANGED <<pc, running, C, closed, checkSumBody, rawLines, ret, t, errs,
                 chunks>>
  /\ UNCHANGED decVars
  /\ UNCHANGED input
  /\ UNCHANGED linVars

\* One of the consumers' "for w := range m.C" receives a telegram, which
\* leaves the channel.
Recv ==
  /\ Len(C) > 0
  /\ \E k \in 1..MaxConsumers : rcvd' = Received(k, Head(C))
  /\ C' = Tail(C)
  /\ UNCHANGED <<pc, running, closed, checkSumBody, rawLines, ret, t, errs,
                 chunks>>
  /\ UNCHANGED decVars
  /\ UNCHANGED input
  /\ UNCHANGED linVars

\* The transition to Stopped: m.running is cleared from outside the driver.
Stop ==
  /\ running
  /\ running' = FALSE
  /\ UNCHANGED <<pc, C, closed, checkSumBody, rawLines, ret, t, errs,
                 chunks>>
  /\ UNCHANGED decVars
  /\ UNCHANGED envVars
  /\ UNCHANGED linVars

Next ==
  \/ LoopCheck
  \/ ReadHeader
  \/ ReadSep
  \/ ReadData
  \/ Handle
  \/ Send
  \/ Recv
  \/ Stop

Spec == Init /\ [][Next]_vars

(***************************************************************************)
(* The decoding part on its own: lines 335-362 applied, step by step, to   *)
(* the maps parseLines can return for a bounded set of data lines.         *)
(***************************************************************************)

CodeP1Version == <<"1", "-", "3", ":", "0", ".", "2", ".", "8">>
CodeMsgTxt == <<"0", "-", "0", ":", "9", "6", ".", "1", "3", ".", "0">>
CodeTariff == <<"0", "-", "0", ":", "9", "6", ".", "1", "4", ".", "0">>
CodeThreshold == <<"0", "-", "0", ":", "1", "7", ".", "0", ".", "0">>
CodePowerFailuresLog == <<"1", "-", "0", ":", "9", "9", ".", "9", "7", ".", "0">>
CodeUnknown == <<"9", "-", "9", ":", "9", ".", "9", ".", "9">>

\* The argument lists a code comes with: for the codes of required fields
\* and of the optional field Threshold, a list its field decodes and one it
\* does not.
TestArgs ==
  (CodeP1Version :> << <<<<"5", "0">>>>, <<<<"5", "0">>, <<"4", "2">>>> >>) @@
  (CodeMsgTxt :> << <<<<"A">>>> >>) @@
  (MarkerElectricity :>
     << <<<<"1", ".", "5", "*", "k", "W", "h">>>>, <<<<"1", "*", "X">>>> >>) @@
  (CodeTariff :> << <<<<"2">>>>, <<<<"X">>>> >>) @@
  (CodeThreshold :> << <<<<"9", "*", "A">>>>, <<<<"9", "*", "X">>>> >>) @@
  (CodePowerFailuresLog :> << <<<<"1">>, <<"2", "*", "s">>>> >>) @@
  (MarkerMultiphase :> << <<<<"0", ".", "2", "*", "k", "W">>>> >>) @@
  (MarkerGas :>
     << <<<<"T">>, <<"7", "*", "m", "3">>>>, <<<<"7", "*", "m", "3">>>> >>) @@
  (CodeUnknown :> << <<<<"A">>, <<"B">>>> >>)

TestCodes == DOMAIN TestArgs

\* The most argument lists a code comes with.
MaxVariants == 2

\* The map in which code c is absent when pick[c] is 0 and comes with its
\* pick[c]-th argument list otherwise.
MapOf(pick) ==
  [c \in {x \in TestCodes : pick[x] > 0} |-> TestArgs[c][pick[c]]]

DataMaps ==
  {MapOf(pick) :
     pick \in {q \in [TestCodes -> 0..MaxVariants] :
                 \A c \in TestCodes : q[c] <= Len(TestArgs[c])}}

DecodeInit ==
  /\ pc = "loop"
  /\ running = TRUE
  /\ C = <<>>
  /\ closed = FALSE
  /\ checkSumBody = <<>>
  /\ rawLines = <<>>
  /\ ret = NewTelegram(<<>>, <<>>)
  /\ t = <<>>
  /\ errs = NilErrs
  /\ chunks = <<>>
  /\ data \in DataMaps
  /\ prev = DecodeStart(data)
  /\ st = DecodeStart(data)
  /\ stage = "start"
  /\ input = NoInput
  /\ rcvd = <<>>
  /\ entries = <<>>
  /\ parsed = NotParsed

\* One step of the decoding part: from stage from to stage to.
DecodeStep(from, to, after) ==
  /\ stage = from
  /\ stage' = to
  /\ prev' = st
  /\ st' = after
  /\ UNCHANGED data
  /\ UNCHANGED drvVars
  /\ UNCHANGED envVars
  /\ UNCHANGED linVars

\* Lines 335-336.
ApplyTelegram ==
  DecodeStep("start", "telegram", FillTelegram(st.t, st.data))

\* Lines 338-342.
ApplyElectricity ==
  DecodeStep("telegram", "electricity", FillElectricity(st))

\* Lines 344-348.
ApplyMultiphase ==
  DecodeStep("electricity", "multiphase", FillMultiphase(st))

\* Lines 350-354.
ApplyGas == DecodeStep("multiphase", "gas", FillGas(st))

\* Lines 356-362: st becomes the two results of readTelegram.
ApplyFinish == DecodeStep("gas", "finish", Finish(st))

DecodeNext ==
  \/ ApplyTelegram
  \/ ApplyElectricity
  \/ ApplyMultiphase
  \/ ApplyGas
  \/ ApplyFinish

SpecDecode == DecodeInit /\ [][DecodeNext]_vars

(***************************************************************************)
(* The driver on finite byte streams: telegrams as a meter sends them, one *)
(* after the other, with lines before a header, or with one byte changed.  *)
(***************************************************************************)

HdrB == <<"/", "K", "S", "M", "5", " ", "B", "\r", "\n">>

\* The bytes of the lines ls[1..n], in order.
RECURSIVE Join(_, _)
Join(ls, n) == IF n = 0 THEN <<>> ELSE Join(ls, n - 1) \o ls[n]

\* The checksum body of a telegram: header line, blank line, data lines.
BodyOf(hdr, ls) == hdr \o Blank \o Join(ls, Len(ls))

\* The footer line a meter sends after the checksum body.
FooterOf(body) ==
  Let(crc(Append(body, "!")), LAMBDA v : <<"!">> \o Hex4(v) \o <<"\r", "\n">>)

\* The telegram with the header line hdr and the data lines ls.
StreamTelegram(hdr, ls) ==
  Let(BodyOf(hdr, ls), LAMBDA body : body \o FooterOf(body))

\* The telegrams with header id A and B and all three required codes.
TeleA == StreamTelegram(HdrLong, <<LineVersion, LineTime, LineID>>)
TeleB == StreamTelegram(HdrB, <<LineVersion, LineTime, LineID>>)

TeleOf(id) == IF id = <<"A">> THEN TeleA ELSE TeleB

\* The telegrams with the header ids ids[1..n], one after the other.
RECURSIVE TeleSeq(_, _)
TeleSeq(ids, n) ==
  IF n = 0 THEN <<>> ELSE TeleSeq(ids, n - 1) \o TeleOf(ids[n])

\* The orders in which telegrams follow each other.
IdSeqs ==
  {<<<<"A">>, <<"B">>>>, <<<<"B">>, <<"A">>>>, <<<<"A">>, <<"B">>, <<"A">>>>}

SequenceStreams ==
  {Fed(TeleSeq(ids, Len(ids)), Made("sequence", ids, <<>>, 0, "0")) :
     ids \in IdSeqs}

\* A telegram whose line after the header is not blank.
TeleNoSep == HdrLong \o LineVersion \o Blank \o FooterZero

\* A telegram whose footer does not hold the CRC of its body.
TeleBadCrc == BodyOf(HdrLong, <<LineVersion>>) \o FooterZero

\* Lines that come before a header and start with no '/'.
Garbage ==
  {<<>>, Blank, LineVersion \o FooterZero, LineCont \o Blank \o LineID}

GarbageStreams ==
  {Fed(g \o tele, Made("garbage", <<>>, tele, Len(g), "0")) :
     g \in Garbage,
     tele \in {TeleA, StreamTelegram(HdrLong, <<LineTime>>), TeleNoSep,
               TeleBadCrc}}

\* A telegram cut off after its first data line.
Truncated == BodyOf(HdrLong, <<LineVersion>>)

\* What comes before the telegram B: a telegram with a wrong checksum, one
\* that holds a code twice, one without the blank line, one cut off after a
\* data line, one cut off after the header line.
Aborted ==
  {TeleBadCrc, StreamTelegram(HdrLong, <<LineVersion, LineVersion>>),
   TeleNoSep, Truncated, HdrLong}

ResyncStreams ==
  {Fed(bad \o TeleB, Made("resync", <<<<"B">>>>, bad, Len(bad), "0")) :
     bad \in Aborted}

\* A data line that reads as a footer line once its first byte is '!': it
\* holds the CRC of the header line, the blank line and a '!'.
TrapLine ==
  Let(crc(Append(BodyOf(HdrLong, <<>>), "!")), LAMBDA v :
    <<"X">> \o Hex4(v) \o <<"\r", "\n">>)

\* The checksum bodies in which one byte is changed.
FlipBodies ==
  {BodyOf(HdrLong, <<LineVersion>>), BodyOf(HdrLong, <<TrapLine, LineTime>>)}

\* The bytes a byte is changed to.
FlipBytes == {"!", "\n", "0", "/"}

\* The body with its byte at pos changed; pos 0 changes nothing.
Flip(body, pos, byte) ==
  IF pos = 0 THEN body ELSE [body EXCEPT ![pos] = byte]

\* A telegram with at most one byte of its checksum body changed, under the
\* footer line of the unchanged body.
FlipStreams ==
  {Fed(Flip(body, pos, byte) \o FooterOf(body),
       Made("flip", <<>>, body, pos, byte)) :
     body \in FlipBodies, pos \in 0..Len(BodyOf(HdrLong, <<TrapLine, LineTime>>)),
     byte \in FlipBytes}

\* The streams fed to the driver; a change of a byte is a change to another
\* byte at a position of the body.
Streams ==
  SequenceStreams \cup GarbageStreams \cup ResyncStreams
    \cup {x \in FlipStreams :
            /\ x.of.pos <= Len(x.of.body)
            /\ IF x.of.pos = 0 THEN x.of.byte = "0"
               ELSE x.of.body[x.of.pos] # x.of.byte}

StreamInit ==
  /\ pc = "loop"
  /\ running = TRUE
  /\ C = <<>>
  /\ closed = FALSE
  /\ checkSumBody = <<>>
  /\ rawLines = <<>>
  /\ ret = NewTelegram(<<>>, <<>>)
  /\ t = <<>>
  /\ errs = NilErrs
  /\ chunks = <<>>
  /\ data = EmptyMap
  /\ prev = DecodeStart(EmptyMap)
  /\ st = DecodeStart(EmptyMap)
  /\ stage = "idle"
  /\ input \in Streams
  /\ rcvd = <<>>
  /\ entries = <<>>
  /\ parsed = NotParsed

SpecStream == StreamInit /\ [][Next]_vars

(***************************************************************************)
(* parseLines on its own (lines 225-263), applied to data lines written    *)
(* from codes and arguments, with and without line breaks before argument  *)
(* groups.                                                                 *)
(***************************************************************************)

\* The most data lines, before any is broken.
MaxEntries == 2

\* Codes: non-empty, without '('.
LineCodes == {<<"1", "-", "0">>, <<"2">>, <<"A", ")">>}

\* Argument lists: no argument holds a parenthesis; one is empty.
LineArgs ==
  {<<>>, <<<<"A">>>>, <<<<"A">>, <<>>>>,
   <<<<"1", "*", "s">>, <<"A">>, <<"1", "*", "s">>>>}

Entry(code, args) == [code |-> code, args |-> args]

\* The sequences of up to MaxEntries entries with distinct codes.
RECURSIVE EntrySeqs(_)
EntrySeqs(n) ==
  IF n = 0 THEN {<<>>}
  ELSE EntrySeqs(n - 1)
         \cup {Append(es, Entry(c, a)) :
                 es \in {x \in EntrySeqs(n - 1) : Len(x) = n - 1},
                 c \in LineCodes, a \in LineArgs}

DistinctCodes(es) ==
  \A i, j \in 1..Len(es) : es[i].code = es[j].code => i = j

\* The argument a as it stands in a line.
Group(a) == <<"(">> \o a \o <<")">>

\* The lines of one entry from its k-th argument group on; a group whose
\* index is in br starts a new line.
RECURSIVE RenderFrom(_, _, _, _)
RenderFrom(args, br, k, lines) ==
  IF k > Len(args) THEN lines
  ELSE IF k \in br
  THEN RenderFrom(args, br, k + 1, Append(lines, Group(args[k])))
  ELSE RenderFrom(args, br, k + 1,
                  [lines EXCEPT ![Len(lines)] = @ \o Group(args[k])])

\* The lines of the entries es[1..n], entry i broken before the groups brs[i].
RECURSIVE Render(_, _, _)
Render(es, brs, n) ==
  IF n = 0 THEN <<>>
  ELSE Render(es, brs, n - 1) \o RenderFrom(es[n].args, brs[n], 1, <<es[n].code>>)

\* The most arguments an entry of es has.
MostArgs(es) ==
  CHOOSE m \in {0} \cup {Len(es[i].args) : i \in 1..Len(es)} :
    \A i \in 1..Len(es) : Len(es[i].args) <= m

\* Where the lines of the entries es may be broken.
Breaks(es) ==
  {brs \in [1..Len(es) -> SUBSET (1..MostArgs(es))] :
     \A i \in 1..Len(es) : brs[i] \subseteq 1..Len(es[i].args)}

NoBreaks(es) == [i \in 1..Len(es) |-> {}]

LinesInit ==
  /\ pc = "loop"
  /\ running = TRUE
  /\ C = <<>>
  /\ closed = FALSE
  /\ checkSumBody = <<>>
  /\ ret = NewTelegram(<<>>, <<>>)
  /\ t = <<>>
  /\ errs = NilErrs
  /\ chunks = <<>>
  /\ data = EmptyMap
  /\ prev = DecodeStart(EmptyMap)
  /\ st = DecodeStart(EmptyMap)
  /\ stage = "idle"
  /\ input = NoInput
  /\ rcvd = <<>>
  /\ parsed = NotParsed
  /\ entries \in {es \in EntrySeqs(MaxEntries) : DistinctCodes(es)}
  /\ \E brs \in Breaks(entries) : rawLines = Render(entries, brs, Len(entries))

\* Line 330: data, err := parseLines(rawLines).
ApplyParseLines ==
  /\ parsed.status = "none"
  /\ parsed' = parseLines(rawLines)
  /\ UNCHANGED entries
  /\ UNCHANGED drvVars
  /\ UNCHANGED decVars
  /\ UNCHANGED envVars

SpecLines == LinesInit /\ [][ApplyParseLines]_vars

(***************************************************************************)
(* The driver and readTelegram: properties of Spec.                        *)
(***************************************************************************)

\* The bytes of the lines of the chunks cs[1..n], in order.
RECURSIVE ChunkBytes(_, _)
ChunkBytes(cs, n) ==
  IF n = 0 THEN <<>> ELSE ChunkBytes(cs, n - 1) \o cs[n].line

\* The last chunk read is a footer line.
FooterRead == chunks # <<>> /\ HasPrefix(chunks[Len(chunks)].line, "!")

\* The footer of the last chunk holds the CRC of all the chunks before it
\* and a '!'.
FooterMatches ==
  Let(ParseHex(TrimSpace(Tail(chunks[Len(chunks)].line))), LAMBDA v :
    v.ok /\ v.val = crc(Append(ChunkBytes(chunks, Len(chunks) - 1), "!")))

\* A read of the call failed.
IoFailed == \E i \in 1..Len(chunks) : chunks[i].err

\* The kinds of the errors of fillStruct.
FieldKinds ==
  {"Missing data", "wrong number of arguments", "could not parse amount",
   "value", "unit"}

\* C1: whenever readTelegram returns a Telegram, with or without field-level
\* errors, the driver's next step takes it to the send on C.
C1_TelegramPublished ==
  [][(pc = "returned" /\ t # <<>> /\ pc' # pc) => pc' = "send"]_vars

\* C1: readTelegram has returned a Telegram together with field-level
\* errors.
C1_Witness == pc = "returned" /\ t # <<>> /\ ~errs.nil

\* C2: a call that returned a Telegram read a footer line whose value equals
\* the CRC of the bytes of all the lines before it and a '!'; a footer that
\* does not match gives no Telegram and a non-empty error list; the driver
\* sends nothing but the Telegram of a call that returned one, and C changes
\* by that send or by a receive only.
C2_ChecksumGuardsTelegram ==
  /\ []((pc \in {"returned", "send"} /\ t # <<>>)
          => (FooterRead /\ FooterMatches))
  /\ []((pc = "returned" /\ FooterRead /\ ~FooterMatches)
          => (t = <<>> /\ ~errs.nil))
  /\ [](pc = "send" => (t # <<>> /\ errs.nil))
  /\ [][C' # C => (Len(C') < Len(C)
                    \/ (pc = "send" /\ C' = Append(C, t[1])))]_vars

\* C2: a telegram of header, separator and two data lines passed the
\* checksum and is about to be sent.
C2_Witness == pc = "send" /\ Len(chunks) >= 5 /\ FooterMatches

\* C3: when readTelegram returns, a failed read gave no Telegram and a
\* non-empty error list, no Telegram always comes with a non-empty error
\* list, and the errors that come with a Telegram are field-level ones.
C3_ResultsConsistent ==
  pc = "returned" =>
    /\ IoFailed => (t = <<>> /\ ~errs.nil)
    /\ t = <<>> => ~errs.nil
    /\ t # <<>> =>
         \A k \in 1..Len(errs.list) : errs.list[k].kind \in FieldKinds

\* C3: readTelegram has returned a Telegram after a read of its data loop
\* failed.
C3_Witness == pc = "returned" /\ IoFailed /\ t # <<>>

\* C4: no run of readTelegram ends in a run-time panic.
C4_NeverAborts == pc # "panic"

\* C4: the header line read has exactly five bytes, or the first data line
\* starts with '('.
C4_Witness ==
  /\ pc = "panic"
  /\ \/ Len(chunks[1].line) = 5
     \/ Len(chunks) >= 3 /\ HasPrefix(chunks[3].line, "(")

\* C5: a read that fails ends the call: readTelegram returns no Telegram and
\* a non-empty error list.
C5_ReadErrorIsFatal ==
  [][(chunks' # chunks /\ chunks' # <<>> /\ chunks'[Len(chunks')].err)
       => (pc' = "returned" /\ t' = <<>> /\ ~errs'.nil)]_vars

\* C5: a read of the data loop has failed and the call goes on reading.
C5_Witness == pc = "data" /\ IoFailed

\* C6, as stated: from the step that clears the running flag on, nothing is
\* read from the byte source and nothing is sent on C.
C6_NothingAfterStop ==
  [][~running => ((chunks' = chunks \/ chunks' = <<>>) /\ Len(C') <= Len(C))]_vars

\* C6, amended: C is closed only by the driver, at a loop check that sees the
\* flag cleared, so never while the flag is set; once C is closed the driver
\* has ended: nothing more is read and nothing is sent on C.
C6_ClosedOnlyWhenStopped ==
  /\ [](closed => (~running /\ pc = "closed"))
  /\ [][(closed' /\ ~closed) => (pc = "loop" /\ ~running)]_vars
  /\ [][closed => (closed' /\ pc' = pc /\ chunks' = chunks
                     /\ Len(C') <= Len(C))]_vars

\* C6: C is closed with a telegram still in its buffer.
C6_Witness == closed /\ Len(C) = 1

\* C7: C never holds more than one Telegram; a send completes only on an
\* empty buffer; while the buffer is full the driver waits at its send and
\* reads nothing.
C7_Backpressure ==
  /\ [](Len(C) <= 1)
  /\ [][Len(C') > Len(C) => (C = <<>> /\ pc = "send")]_vars
  /\ [][(pc = "send" /\ C # <<>>)
          => (pc' = pc /\ t' = t /\ chunks' = chunks)]_vars

\* C7: the driver is at its send while C still holds the telegram before.
C7_Witness == pc = "send" /\ Len(C) = 1

(***************************************************************************)
(* The decoding part: properties of SpecDecode.                            *)
(***************************************************************************)

\* The codes of the tagged fields of a record.
RegistryCodes(fields) == {fields[i].obis : i \in 1..Len(fields)}

\* The codes of the records that are filled for the map data: Telegram
\* always, a block when its marker code is in the map.
ClaimedCodes ==
  RegistryCodes(TelegramFields)
    \cup (IF MarkerElectricity \in DOMAIN data
          THEN RegistryCodes(ElectricityDataFields) ELSE {})
    \cup (IF MarkerMultiphase \in DOMAIN data
          THEN RegistryCodes(MultiphaseElectricityDataFields) ELSE {})
    \cup (IF MarkerGas \in DOMAIN data THEN RegistryCodes(GasDataFields) ELSE {})

\* C8: in the returned Telegram, Other holds exactly the codes of the map
\* that are no code of a record that was filled, each with its argument list
\* unchanged.
C8_OtherIsResidual ==
  stage = "finish" =>
    /\ DOMAIN st.t[1].Other = DOMAIN data \ ClaimedCodes
    /\ \A c \in DOMAIN st.t[1].Other : st.t[1].Other[c] = data[c]

\* C8: a Telegram is returned whose Other holds an unknown code and a code
\* of the electricity block that was not filled, while the gas block took
\* its codes.
C8_Witness ==
  /\ stage = "finish"
  /\ CodeUnknown \in DOMAIN st.t[1].Other
  /\ CodeTariff \in DOMAIN st.t[1].Other
  /\ MarkerGas \in DOMAIN data
  /\ CodeP1Version \in DOMAIN data

\* No error of the list l is about a code of the record.
NoErrorFor(l, fields) ==
  \A k \in 1..Len(l) : l[k].obis \notin RegistryCodes(fields)

\* C9: in the returned Telegram each block is present iff its marker code is
\* in the map, and no error is about a code of an absent block.
C9_BlocksFollowMarkers ==
  stage = "finish" =>
    /\ st.t[1].Electricity # <<>> <=> MarkerElectricity \in DOMAIN data
    /\ st.t[1].MultiphaseElectricity # <<>> <=> MarkerMultiphase \in DOMAIN data
    /\ st.t[1].Gas # <<>> <=> MarkerGas \in DOMAIN data
    /\ MarkerElectricity \notin DOMAIN data
         => NoErrorFor(st.errs.list, ElectricityDataFields)
    /\ MarkerMultiphase \notin DOMAIN data
         => NoErrorFor(st.errs.list, MultiphaseElectricityDataFields)
    /\ MarkerGas \notin DOMAIN data => NoErrorFor(st.errs.list, GasDataFields)

\* C9: a Telegram is returned with an electricity block, without a gas
\* block, and with errors.
C9_Witness ==
  /\ stage = "finish"
  /\ st.t[1].Electricity # <<>>
  /\ st.t[1].Gas = <<>>
  /\ st.t[1].MultiphaseElectricity = <<>>
  /\ ~st.errs.nil

\* The latest step applied fillStruct.
Filled ==
  \/ stage = "telegram"
  \/ stage = "electricity" /\ MarkerElectricity \in DOMAIN prev.data
  \/ stage = "multiphase" /\ MarkerMultiphase \in DOMAIN prev.data
  \/ stage = "gas" /\ MarkerGas \in DOMAIN prev.data

\* The tagged fields of the record the latest step filled.
FilledFields ==
  CASE stage = "telegram" -> TelegramFields
    [] stage = "electricity" -> ElectricityDataFields
    [] stage = "multiphase" -> MultiphaseElectricityDataFields
    [] stage = "gas" -> GasDataFields

\* The record the latest step filled.
FilledStruct ==
  CASE stage = "telegram" -> st.t
    [] stage = "electricity" -> st.t.Electricity[1]
    [] stage = "multiphase" -> st.t.MultiphaseElectricity[1]
    [] stage = "gas" -> st.t.Gas[1]

\* The errors the latest step added.
FilledErrs == SubSeq(st.errs, Len(prev.errs) + 1, Len(st.errs))

\* How many errors of the list l are e.
Count(l, e) == Cardinality({k \in 1..Len(l) : l[k] = e})

\* The value v is what the arguments args decode to for the field f; the
\* switch of lines 407-457 has no case for a "log" field, which stays as it
\* was.
DecodesTo(f, args, v) ==
  CASE f.type = "id" -> Len(args) = 1 /\ v = args[1]
    [] f.type = "int" ->
         Len(args) = 1 /\ Atoi(args[1]).ok /\ v = Atoi(args[1]).val
    [] f.type = "unit" ->
         Len(args) = 1 /\ parseUnit(args[1]).ok /\ v = parseUnit(args[1]).val
    [] f.type = "gasrecord" ->
         /\ Len(args) = 2
         /\ parseUnit(args[2]).ok
         /\ v = [TimeStamp |-> args[1], Value |-> parseUnit(args[2]).val]
    [] OTHER -> v = ZeroOf(f.type)

\* C10, for one tagged field of the record filled: one missing-data error
\* iff the field is no pointer and its code is absent; an absent field keeps
\* its zero value; a present field holds what its arguments decode to or has
\* an error of its own.
FieldSettled(f, sv, l, m) ==
  /\ Count(l, Err("Missing data", f.obis, "nil"))
       = IF ~f.ptr /\ f.obis \notin DOMAIN m THEN 1 ELSE 0
  /\ f.obis \notin DOMAIN m
       => sv[f.name] = IF f.ptr THEN <<>> ELSE ZeroOf(f.type)
  /\ f.obis \in DOMAIN m
       => \/ DecodesTo(f, m[f.obis], IF f.ptr THEN sv[f.name][1] ELSE sv[f.name])
          \/ \E k \in 1..Len(l) :
               l[k].obis = f.obis /\ l[k].kind # "Missing data"

Arity(type) == IF type = "gasrecord" THEN 2 ELSE 1

\* C11, for one tagged field of the record filled: a present code with the
\* wrong number of arguments for its kind has exactly one
\* wrong-number-of-arguments error and a field that holds no decoded value;
\* a present code with the right number has no such error.
ArityChecked(f, sv, l, m) ==
  f.obis \in DOMAIN m =>
    IF Len(m[f.obis]) # Arity(f.type)
    THEN /\ Count(l, Err("wrong number of arguments", f.obis, "nil")) = 1
         /\ (IF f.ptr /\ sv[f.name] # <<>> THEN sv[f.name][1] ELSE sv[f.name])
              \in {<<>>, ZeroOf(f.type)}
    ELSE Count(l, Err("wrong number of arguments", f.obis, "nil")) = 0

\* C11: every application of fillStruct checks the number of arguments of
\* every present code of its record, whatever the kind (id, int, unit, log,
\* gasrecord), and the Telegram is returned all the same.
C11_WrongArgCount ==
  /\ Filled =>
       \A i \in 1..Len(FilledFields) :
         ArityChecked(FilledFields[i], FilledStruct, FilledErrs, prev.data)
  /\ stage = "finish" => st.t # <<>>

\* C11: the electricity block was filled from a map that holds the code of
\* the log-typed field with two arguments.
C11_Witness ==
  /\ stage = "electricity"
  /\ Filled
  /\ CodePowerFailuresLog \in DOMAIN prev.data
  /\ Len(prev.data[CodePowerFailuresLog]) = 2
  /\ CodePowerFailuresLog \notin DOMAIN st.data

(***************************************************************************)
(* The splitter and the header: properties of Spec.                        *)
(***************************************************************************)

\* The code of a data line: what stands before its first '('.
CodeOf(line) ==
  Let(IndexFrom(line, "(", 1), LAMBDA j :
    IF j = 0 THEN line ELSE SubSeq(line, 1, j - 1))

\* Some argument segment of the line does not end with ')'.
Unterminated(line) ==
  Let(Split(line, "("), LAMBDA bits :
    \E j \in 2..Len(bits) : ~HasSuffix(bits[j], ")"))

\* Two of the lines have the same code, or one has an unterminated
\* argument.
Offending(lines) ==
  \/ \E i, j \in 1..Len(lines) : i < j /\ CodeOf(lines[i]) = CodeOf(lines[j])
  \/ \E i \in 1..Len(lines) : Unterminated(lines[i])

\* The call returned from its footer line, so that rawLines holds the data
\* lines of the telegram.
ReturnedAtFooter == pc = "returned" /\ Len(chunks) >= 3 /\ FooterRead

\* C12: when the merged data lines of a telegram hold a code twice or an
\* unterminated argument, parseLines returns an error and no mapping, and
\* readTelegram returns no Telegram and a non-empty error list.
C12_SplitterErrorsFatal ==
  ReturnedAtFooter =>
    Let(MergeLines(rawLines, 1, <<>>), LAMBDA m :
      (~m.panic /\ Offending(m.lines)) =>
        /\ parseLines(rawLines).status = "err"
        /\ parseLines(rawLines).ret = EmptyMap
        /\ t = <<>>
        /\ ~errs.nil)

\* C12: a telegram with a valid checksum whose second and third data line
\* are the same was refused for the duplicate code.
C12_Witness ==
  /\ ReturnedAtFooter
  /\ FooterMatches
  /\ Len(rawLines) = 3
  /\ rawLines[2] = rawLines[3]
  /\ rawLines[1] # rawLines[2]
  /\ ~HasPrefix(rawLines[2], "(")
  /\ t = <<>>
  /\ errs.list[1].kind = "Multiple occurances of OBIS"

\* C13: the step that reads the header line ends the call with no Telegram
\* and a non-empty error list when the line has fewer than six bytes, and
\* otherwise sets HeaderMarker to its first six bytes and HeaderId to the
\* rest, trimmed.
C13_HeaderFraming ==
  [][(pc = "header" /\ pc' # pc /\ ~chunks'[1].err) =>
       IF Len(chunks'[1].line) < 6
       THEN pc' = "returned" /\ t' = <<>> /\ ~errs'.nil
       ELSE /\ ret'.HeaderMarker = SubSeq(chunks'[1].line, 1, 6)
            /\ ret'.HeaderId
                 = TrimSpace(SubSeq(chunks'[1].line, 7, Len(chunks'[1].line)))]_vars

\* C13: the call has ended in a panic on a header line of five bytes.
C13_Witness ==
  pc = "panic" /\ Len(chunks) = 1 /\ Len(chunks[1].line) = 5

(***************************************************************************)
(* The checksum on streams with one changed byte: properties of SpecStream. *)
(***************************************************************************)

\* The stream is a telegram that validates, with at most one byte changed.
FlipFed == input.fed /\ input.of.kind = "flip"

\* One byte of the checksum body was changed to another byte.
Changed == FlipFed /\ input.of.pos # 0

UnitResult(v) == Let(parseUnit(v), LAMBDA r : <<r.val, r.err>>)

\* C15, the tokens: an amount with a unit of the table gives the amount
\* times the factor of the unit; a token without '*', an amount that does not
\* parse and a unit outside the table (all that follows the first '*') fail,
\* each with its own error and the value 0.
UnitTokens ==
  /\ UnitResult(<<"2", "2", "8", ".", "5", "8", "4", "*", "k", "W", "h">>)
       = <<Dec(228584, 1000), "nil">>
  /\ UnitResult(<<"1", ".", "1", "9", "3", "*", "k", "W">>)
       = <<Dec(1193, 1), "nil">>
  /\ \A u \in {<<"k", "W", "h">>, <<"W">>, <<"s">>, <<"m", "3">>, <<"A">>, <<"V">>} :
       UnitResult(<<"2", ".", "5", "*">> \o u) = <<Dec(25, 10), "nil">>
  /\ UnitResult(<<"1", "2">>) = <<DecZero, "not a unit">>
  /\ UnitResult(<<"X", "*", "k", "W">>) = <<DecZero, "could not parse amount">>
  /\ UnitResult(<<"*", "k", "W">>) = <<DecZero, "could not parse amount">>
  /\ UnitResult(<<"1", "*", "X", "Y", "Z">>) = <<DecZero, "unknown unit">>
  /\ UnitResult(<<"1", "*", "k", "W", "*", "A">>) = <<DecZero, "unknown unit">>
  /\ UnitResult(<<"1", "*">>) = <<DecZero, "unknown unit">>

\* C15, for one unit field of the record filled whose code came with one
\* argument: the field holds the value of parseUnit, and after a failure of
\* parseUnit the value is 0 and the field is as it was before fillStruct.
UnitFieldSettled(f, sv, m) ==
  (f.type = "unit" /\ f.obis \in DOMAIN m /\ Len(m[f.obis]) = 1) =>
    Let(parseUnit(m[f.obis][1]), LAMBDA r :
      IF r.ok
      THEN sv[f.name] = IF f.ptr THEN <<r.val>> ELSE r.val
      ELSE r.val = DecZero /\ sv[f.name] = ZeroStruct(FilledFields)[f.name])

\* C15: parseUnit returns the amount times the factor of the unit, fails on
\* a token without '*', on an unparsable amount and on an unknown unit, and
\* on every failure the value returned is 0 and the target field is left
\* unchanged.
C15_ParseUnit ==
  /\ UnitTokens
  /\ Filled =>
       \A i \in 1..Len(FilledFields) :
         UnitFieldSettled(FilledFields[i], FilledStruct, prev.data)

\* C15: fillStruct met the code of the unit field Threshold with the unit X,
\* which the table does not hold.
C15_Witness ==
  /\ stage = "electricity"
  /\ Filled
  /\ CodeThreshold \in DOMAIN prev.data
  /\ UnitResult(prev.data[CodeThreshold][1]) = <<DecZero, "unknown unit">>
  /\ \E k \in 1..Len(FilledErrs) :
       FilledErrs[k] = Err("unit", CodeThreshold, "unknown unit")

\* The arguments args decode for the field f without an error.
Decodable(f, args) ==
  CASE f.type = "id" -> Len(args) = 1
    [] f.type = "int" -> Len(args) = 1 /\ Atoi(args[1]).ok
    [] f.type = "unit" -> Len(args) = 1 /\ parseUnit(args[1]).ok
    [] f.type = "gasrecord" -> Len(args) = 2 /\ parseUnit(args[2]).ok
    [] OTHER -> TRUE

\* C20: after fillStruct an optional field is set iff its code was present
\* in the mapping and its value was decoded without an error; with the code
\* absent, or present and not decodable, the field is unset.
C20_OptionalSetIffDecoded ==
  Filled =>
    \A i \in 1..Len(FilledFields) :
      FilledFields[i].ptr =>
        ((FilledStruct[FilledFields[i].name] # <<>>)
           <=> /\ FilledFields[i].obis \in DOMAIN prev.data
               /\ Decodable(FilledFields[i],
                            prev.data[FilledFields[i].obis]))

\* C20: the code of the optional field Threshold was present and did not
\* decode, and fillStruct has returned.
C20_Witness ==
  /\ stage = "electricity"
  /\ Filled
  /\ CodeThreshold \in DOMAIN prev.data
  /\ ~Decodable(FieldOf(ElectricityDataFields, "Threshold"),
                prev.data[CodeThreshold])
  /\ Len(FilledErrs) >= 1

(***************************************************************************)
(* parseLines on written data lines: properties of SpecLines.              *)
(***************************************************************************)

\* The mapping of the entries es: each code to its arguments.
MapOfEntries(es) ==
  [c \in {es[i].code : i \in 1..Len(es)} |->
     es[CHOOSE i \in 1..Len(es) : es[i].code = c].args]

\* C16: on data lines code(a1)...(an) with distinct codes and arguments
\* without parentheses, parseLines returns the mapping whose keys are exactly
\* the codes, each mapped to its arguments in order; with argument groups
\* broken onto following lines it returns the same mapping as for the
\* unbroken lines.
C16_ParseLines ==
  parsed.status # "none" =>
    /\ parsed.status = "ok"
    /\ DOMAIN parsed.ret = {entries[i].code : i \in 1..Len(entries)}
    /\ \A i \in 1..Len(entries) : parsed.ret[entries[i].code] = entries[i].args
    /\ parsed = parseLines(Render(entries, NoBreaks(entries), Len(entries)))

\* C16: parseLines was applied to two data lines, one with three arguments,
\* written on more lines than there are codes.
C16_Witness ==
  /\ parsed.status = "ok"
  /\ Len(entries) = 2
  /\ Len(rawLines) > Len(entries) + 1
  /\ \E i \in 1..Len(entries) : Len(entries[i].args) = 3
  /\ parsed.ret = MapOfEntries(entries)

(***************************************************************************)
(* Lines before the header: properties of SpecStream.                      *)
(***************************************************************************)

\* The lines that successive ReadBytes calls return for the bytes b.
RECURSIVE LinesOf(_)
LinesOf(b) ==
  IF b = <<>> THEN <<>>
  ELSE Let(ReadBytes(b), LAMBDA r : <<r.chunk.line>> \o LinesOf(r.rest))

\* What readTelegram returns on a stream that starts with the header line of
\* a telegram of complete lines and holds its footer as the last line.
ReadAlone(tele) ==
  Let(LinesOf(tele), LAMBDA ls :
    IF TrimSpace(ls[2]) # <<>> THEN Fatal("Line after header is not blank")
    ELSE AfterFooter(Join(ls, Len(ls) - 1), ls[Len(ls)],
                     [i \in 1..(Len(ls) - 3) |-> TrimSpace(ls[i + 2])],
                     NewTelegram(SubSeq(ls[1], 1, 6),
                                 TrimSpace(SubSeq(ls[1], 7, Len(ls[1]))))))

\* The stream is a telegram after lines that start with no '/'.
GarbageFed == input.fed /\ input.of.kind = "garbage"

\* The call in progress or just returned has read a line as its header.
HeaderTaken ==
  pc \in {"sep", "data", "returned"} /\ chunks # <<>> /\ ~chunks[1].err

\* C17: lines before the header that start with no '/' are skipped and add
\* nothing to the checksum body or to the data lines: the lines the call
\* works on are those of the telegram T alone, and on G followed by T
\* readTelegram returns the Telegram and the errors it returns on T alone; a
\* non-blank line directly after the header gives a fatal framing error and
\* no Telegram.
C17_SkipBeforeHeader ==
  (GarbageFed /\ HeaderTaken) =>
    /\ HasPrefix(chunks[1].line, "/")
    /\ ChunkBytes(chunks, Len(chunks)) \o input.bytes = input.of.body
    /\ pc = "data" =>
         /\ checkSumBody = ChunkBytes(chunks, Len(chunks))
         /\ rawLines = [i \in 1..(Len(chunks) - 2) |->
                          TrimSpace(chunks[i + 2].line)]
    /\ pc = "returned" =>
         [panic |-> FALSE, t |-> t, errs |-> errs] = ReadAlone(input.of.body)
    /\ (pc = "returned" /\ Len(chunks) = 2
          /\ TrimSpace(chunks[2].line) # <<>>) =>
         /\ t = <<>>
         /\ errs = ErrList(<<Err("Line after header is not blank", <<>>,
                                 "nil")>>)

\* C17: after three skipped lines, one of them blank, the call returned the
\* Telegram of the telegram that followed.
C17_Witness ==
  /\ GarbageFed
  /\ HeaderTaken
  /\ pc = "returned"
  /\ input.of.pos = Len(LineCont \o Blank \o LineID)
  /\ t # <<>>
  /\ errs.nil
  /\ t[1].HeaderId = <<"A">>

(***************************************************************************)
(* Consumers of the channel: properties of SpecStream.                     *)
(***************************************************************************)

\* The stream is a sequence of complete telegrams with valid checksums.
SequenceFed == input.fed /\ input.of.kind = "sequence"

\* The telegrams sent or about to be sent, oldest first: those received,
\* those in the channel, and the one the driver holds at line 216.
Handed ==
  [i \in 1..Len(rcvd) |-> rcvd[i].t] \o C
    \o (IF pc = "send" THEN t ELSE <<>>)

\* How many telegrams of the stream have been read to their end.
TelegramsRead ==
  (Len(TeleSeq(input.of.ids, Len(input.of.ids))) - Len(input.bytes))
    \div Len(TeleA)

\* C18: the telegrams received by the consumers, then those waiting in the
\* channel or at the send, are the telegrams of the stream in the order in
\* which they were read, each once: none is received twice or by two
\* consumers, none is lost or overtaken, and no more telegrams are handed on
\* than telegrams were read from the stream.
C18_EachOnceInOrder ==
  SequenceFed =>
    /\ Len(Handed) <= TelegramsRead
    /\ \A i \in 1..Len(Handed) : Handed[i].HeaderId = input.of.ids[i]
    /\ \A i \in 1..Len(rcvd) : rcvd[i].by \in 1..MaxConsumers
    /\ pc = "loop" => Len(Handed) = TelegramsRead

\* C18: the three telegrams of a stream were received, the first two by
\* different consumers.
C18_Witness ==
  /\ SequenceFed
  /\ Len(input.of.ids) = 3
  /\ Len(rcvd) = 3
  /\ rcvd[1].by # rcvd[2].by
  /\ rcvd[3].t.HeaderId = <<"A">>
  /\ rcvd[2].t.HeaderId = <<"B">>

(***************************************************************************)
(* Resynchronisation after an aborted telegram: properties of SpecStream.  *)
(***************************************************************************)

\* The stream is what a failing telegram leaves, directly followed by the
\* complete, well-formed, checksum-valid telegram B.
ResyncFed == input.fed /\ input.of.kind = "resync"

\* C19: a fatal error costs only the telegram it is about: once the stream
\* is read to its end and the driver is back at its loop, the complete and
\* checksum-valid telegram B that followed the aborted one has been decoded
\* and sent, whatever came before it, a telegram cut off directly before the
\* header of B included.
C19_NextTelegramSent ==
  (ResyncFed /\ input.bytes = <<>> /\ pc = "loop") =>
    \E i \in 1..Len(Handed) : Handed[i].HeaderId = <<"B">>

\* C19: a telegram cut off after a data line was directly followed by the
\* telegram B, and the call that read both has returned.
C19_Witness ==
  /\ ResyncFed
  /\ input.of.body = Truncated
  /\ pc = "returned"
  /\ input.bytes = <<>>
  /\ FooterRead
  /\ \E i \in 1..Len(chunks) : chunks[i].line = HdrB

=============================================================================
